---- MODULE Spec2Model ----
(***************************************************************************)
(* A model of language_checker: the LanguageCodes registry (a TSV table    *)
(* cached in a local file), the LanguageChecker detector built on a loaded *)
(* fastText model, and the label decoding that joins the two.              *)
(*                                                                         *)
(* Strings are sequences of one-character strings, so that split() and     *)
(* lower() are computed and not assumed.  Confidences are integers on a    *)
(* scale 0..MaxConf; only their order matters to the code.                 *)
(***************************************************************************)
EXTENDS Integers, Sequences, FiniteSets, TLC

VARIABLES
    model,       \* self.model: the loaded classifier, text -> full ranking
    codes,       \* self.codes of the registry: dict as <<code, name>> pairs in insertion order
    constructed, \* whether a LanguageCodes object has been constructed
    remote,      \* what the ISO 639-3 server answers to the GET
    cacheFile,   \* the file iso-639-3.tab in the working directory
    pc,          \* "idle" between calls, "done" when a call has finished
    call         \* the finished call: its operation, arguments, outcome, oracle calls

vars == <<model, codes, constructed, remote, cacheFile, pc, call>>

---------------------------------------------------------------------------
(* Bounds *)

MaxConf == 1
MaxRank == 2
MaxK == 3
MaxTexts == 2
MaxRows == 2
MaxLabelLen == 4
MaxSegLen == 2

---------------------------------------------------------------------------
(* Strings *)

sUnknown == <<"U","n","k","n","o","w","n">>
sEnglish == <<"E","n","g","l","i","s","h">>
sPolish == <<"P","o","l","i","s","h">>
sEng == <<"e","n","g">>
sPol == <<"p","o","l">>
sZxx == <<"z","x","x">>
sLatn == <<"L","a","t","n">>
sLabelPrefix == <<"_","_","l","a","b","e","l","_","_">>
sSepLabel == <<"_","_">>
sSepScript == <<"_">>

\* The texts of example.py, shortened: an English sentence and the word "english".
textHello == <<"H","e","l","l","o">>
textEnglish == <<"e","n","g","l","i","s","h">>

UpperChars == <<"A","B","C","D","E","F","G","H","I","J","K","L","M",
                "N","O","P","Q","R","S","T","U","V","W","X","Y","Z">>
LowerChars == <<"a","b","c","d","e","f","g","h","i","j","k","l","m",
                "n","o","p","q","r","s","t","u","v","w","x","y","z">>

\* str.lower(), one character
LowerChar(c) ==
    IF \E i \in DOMAIN UpperChars : UpperChars[i] = c
    THEN LowerChars[CHOOSE i \in DOMAIN UpperChars : UpperChars[i] = c]
    ELSE c

\* str.lower()
RECURSIVE lower(_)
lower(s) == IF s = <<>> THEN <<>> ELSE <<LowerChar(Head(s))>> \o lower(Tail(s))

\* str.find(sep): the first index at which sep occurs in s, 0 when it does not
Find(s, sep) ==
    LET hits == {j \in 1..Len(s) : /\ j + Len(sep) - 1 <= Len(s)
                                   /\ SubSeq(s, j, j + Len(sep) - 1) = sep}
    IN IF hits = {} THEN 0 ELSE CHOOSE j \in hits : \A h \in hits : j <= h

\* str.split(sep) for a non-empty sep: left to right, occurrences do not overlap
RECURSIVE split(_, _)
split(s, sep) ==
    LET j == Find(s, sep)
    IN IF j = 0 THEN <<s>>
       ELSE <<SubSeq(s, 1, j - 1)>> \o split(SubSeq(s, j + Len(sep), Len(s)), sep)

Last(q) == q[Len(q)]

---------------------------------------------------------------------------
(* LanguageCodes: the registry *)

\* dict.__setitem__: a present key keeps its place, a new key goes last
DictSet(d, k, v) ==
    IF \E i \in DOMAIN d : d[i][1] = k
    THEN [i \in DOMAIN d |-> IF d[i][1] = k THEN <<k, v>> ELSE d[i]]
    ELSE Append(d, <<k, v>>)

DictHas(d, k) == \E i \in DOMAIN d : d[i][1] = k

DictGet(d, k, default) ==
    IF DictHas(d, k) THEN d[CHOOSE i \in DOMAIN d : d[i][1] = k][2] ELSE default

\* get_language_name with the default dropped: self.codes.get(lang_code)
get_language_name_nodefault(d, lang_code) == DictGet(d, lang_code, <<>>)

\* LanguageCodes.get_language_name
get_language_name(d, lang_code) == DictGet(d, lang_code, sUnknown)

\* get_language_code through a reversed dict {name: code}: the last entry wins
get_language_code_last(d, language_name) ==
    LET hits == {i \in DOMAIN d : d[i][2] = language_name}
    IN IF hits = {} THEN sUnknown
       ELSE d[CHOOSE i \in hits : \A h \in hits : i >= h][1]

\* LanguageCodes.get_language_code: the first entry, in dict order, with this name
get_language_code(d, language_name) ==
    LET hits == {i \in DOMAIN d : d[i][2] = language_name}
    IN IF hits = {} THEN sUnknown
       ELSE d[CHOOSE i \in hits : \A h \in hits : i <= h][1]

\* One line of the TSV file as csv.reader yields it: Id, Part2b, Part2t, Part1,
\* Scope, Language_Type, Ref_Name
Row(code, name) == <<code, <<>>, <<>>, <<>>, <<>>, <<>>, name>>

\* for row in reader: self.codes[row[0]] = row[6]
RECURSIVE parse_rows(_, _, _)
parse_rows(rows, i, d) ==
    IF i > Len(rows) THEN [outcome |-> "returned", codes |-> d]
    ELSE IF Len(rows[i]) < 7 THEN [outcome |-> "IndexError", codes |-> d]
    ELSE parse_rows(rows, i + 1, DictSet(d, rows[i][1], rows[i][7]))

\* requests.get(url) raises only when the server cannot be reached; an HTTP
\* error status comes back as a response whose content is the error body.
get_raises(resp) == resp.kind = "unreachable"

\* LanguageCodes.__init__, given the file and the server's answer
LanguageCodes_init(file, resp) ==
    LET fetched == ~file.exists
    IN IF fetched /\ get_raises(resp)
       THEN [outcome |-> "ConnectionError", codes |-> <<>>, file |-> file,
             fetched |-> TRUE]
       ELSE LET written == IF fetched THEN [exists |-> TRUE, rows |-> resp.rows]
                                      ELSE file
                parsed == parse_rows(written.rows, 1, <<>>)
            IN [outcome |-> parsed.outcome, codes |-> parsed.codes,
                file |-> written, fetched |-> fetched]

---------------------------------------------------------------------------
(* LanguageChecker: label decoding *)

\* _language_code_from_label cutting at the last occurrence of "__":
\* language_label.rsplit("__", 1)[-1]
_language_code_from_label_rsplit(language_label) ==
    LET occ == {j \in 1..(Len(language_label) - 1) :
                  language_label[j] = "_" /\ language_label[j + 1] = "_"}
        lang_code_with_alphabet ==
            IF occ = {} THEN language_label
            ELSE SubSeq(language_label,
                        (CHOOSE j \in occ : \A o \in occ : j >= o) + 2,
                        Len(language_label))
    IN split(lang_code_with_alphabet, sSepScript)[1]

\* LanguageChecker._language_code_from_label
_language_code_from_label(language_label) ==
    LET lang_code_with_alphabet == Last(split(language_label, sSepLabel))
    IN split(lang_code_with_alphabet, sSepScript)[1]

\* LanguageChecker._language_name_from_label
_language_name_from_label(d, language_label) ==
    get_language_name(d, _language_code_from_label(language_label))

---------------------------------------------------------------------------
(* LanguageChecker: the detector *)

\* certainty: Optional[float] = None
None == <<>>
Some(c) == <<c>>

\* k: int = 3, the default of _predict
DefaultK == 3

Min(a, b) == IF a < b THEN a ELSE b

\* LanguageChecker._predict: self.model.predict(text, k=k), the k best of the
\* model's ranking of the text, fewer when the model ranks fewer
_predict(m, text, k) ==
    LET n == Min(k, Len(m[text].labels))
    IN [labels |-> SubSeq(m[text].labels, 1, n),
        probs |-> SubSeq(m[text].probs, 1, n)]

\* predict_language accepting a confidence equal to the threshold (>=)
predict_language_ge(m, d, text, certainty) ==
    LET p == _predict(m, text, DefaultK)
        oracle == << <<text, DefaultK>> >>
    IN IF Len(p.labels) = 0
       THEN [outcome |-> "IndexError", value |-> <<>>, oracle |-> oracle]
       ELSE IF certainty = None \/ p.probs[1] >= certainty[1]
       THEN [outcome |-> "returned",
             value |-> _language_name_from_label(d, p.labels[1]),
             oracle |-> oracle]
       ELSE [outcome |-> "ValueError", value |-> <<>>, oracle |-> oracle]

\* predict_language asking the oracle for one candidate: self._predict(text, k=1)
predict_language_k1(m, d, text, certainty) ==
    LET p == _predict(m, text, 1)
        oracle == << <<text, 1>> >>
    IN IF Len(p.labels) = 0
       THEN [outcome |-> "IndexError", value |-> <<>>, oracle |-> oracle]
       ELSE IF certainty = None \/ p.probs[1] > certainty[1]
       THEN [outcome |-> "returned",
             value |-> _language_name_from_label(d, p.labels[1]),
             oracle |-> oracle]
       ELSE [outcome |-> "ValueError", value |-> <<>>, oracle |-> oracle]

\* LanguageChecker.predict_language
predict_language(m, d, text, certainty) ==
    LET p == _predict(m, text, DefaultK)
        oracle == << <<text, DefaultK>> >>
    IN IF Len(p.labels) = 0
       THEN [outcome |-> "IndexError", value |-> <<>>, oracle |-> oracle]
       ELSE LET language_label == p.labels[1]
                confidence == p.probs[1]
                language_name == _language_name_from_label(d, language_label)
            IN IF certainty = None \/ confidence > certainty[1]
               THEN [outcome |-> "returned", value |-> language_name,
                     oracle |-> oracle]
               ELSE [outcome |-> "ValueError", value |-> <<>>, oracle |-> oracle]

\* LanguageChecker.predict_language_candidates
predict_language_candidates(m, d, text, k) ==
    LET p == _predict(m, text, k)
        oracle == << <<text, k>> >>
    IN IF \E i \in 1..k : i > Len(p.labels)
       THEN [outcome |-> "IndexError", value |-> <<>>, oracle |-> oracle]
       ELSE [outcome |-> "returned",
             value |-> [i \in 1..k |->
                          <<_language_name_from_label(d, p.labels[i]), p.probs[i]>>],
             oracle |-> oracle]

\* LanguageChecker.predict_language_and_certainty
predict_language_and_certainty(m, d, text) ==
    LET p == _predict(m, text, DefaultK)
        oracle == << <<text, DefaultK>> >>
    IN IF Len(p.labels) = 0
       THEN [outcome |-> "IndexError", value |-> <<>>, oracle |-> oracle]
       ELSE [outcome |-> "returned",
             value |-> <<_language_name_from_label(d, p.labels[1]), p.probs[1]>>,
             oracle |-> oracle]

\* The loop of is_same_language from text i on, with the names collected and the
\* oracle calls made so far
RECURSIVE same_language_loop(_, _, _, _, _, _, _)
same_language_loop(m, d, texts, certainty, i, languages, oracle) ==
    IF i > Len(texts)
    THEN [outcome |-> "returned", value |-> (Cardinality(languages) = 1),
          oracle |-> oracle, warned |-> <<>>]
    ELSE LET r == predict_language(m, d, texts[i], certainty)
         IN IF r.outcome = "ValueError"
            THEN [outcome |-> "returned", value |-> FALSE,
                  oracle |-> oracle \o r.oracle, warned |-> <<texts[i]>>]
            ELSE IF r.outcome # "returned"
            THEN [outcome |-> r.outcome, value |-> FALSE,
                  oracle |-> oracle \o r.oracle, warned |-> <<>>]
            ELSE same_language_loop(m, d, texts, certainty, i + 1,
                                    languages \cup {r.value}, oracle \o r.oracle)

\* is_same_language predicting every text before it looks for a failure
is_same_language_noshort(m, d, texts, certainty) ==
    LET rs == [i \in DOMAIN texts |-> predict_language(m, d, texts[i], certainty)]
        oracle == [i \in DOMAIN texts |-> rs[i].oracle[1]]
    IN IF \E i \in DOMAIN texts : rs[i].outcome = "ValueError"
       THEN [outcome |-> "returned", value |-> FALSE, oracle |-> oracle,
             warned |-> <<>>]
       ELSE [outcome |-> "returned",
             value |-> (Cardinality({rs[i].value : i \in DOMAIN texts}) = 1),
             oracle |-> oracle, warned |-> <<>>]

\* is_same_language ending with len(languages) <= 1
is_same_language_atmost1(m, d, texts, certainty) ==
    LET r == same_language_loop(m, d, texts, certainty, 1, {}, <<>>)
    IN IF Len(texts) = 0 THEN [r EXCEPT !.value = TRUE] ELSE r

\* LanguageChecker.is_same_language
is_same_language(m, d, texts, certainty) ==
    same_language_loop(m, d, texts, certainty, 1, {}, <<>>)

\* LanguageChecker.is_language
is_language(m, d, language_name, text, certainty) ==
    LET r == predict_language(m, d, text, certainty)
    IN IF r.outcome = "returned"
       THEN [outcome |-> "returned",
             value |-> (lower(r.value) = lower(language_name)),
             oracle |-> r.oracle, warned |-> <<>>]
       ELSE IF r.outcome = "ValueError"
       THEN [outcome |-> "returned", value |-> FALSE, oracle |-> r.oracle,
             warned |-> <<text>>]
       ELSE [outcome |-> r.outcome, value |-> FALSE, oracle |-> r.oracle,
             warned |-> <<>>]

---------------------------------------------------------------------------
(* Input sets *)

SeqsUpTo(S, n) == UNION {[1..k -> S] : k \in 0..n}

Texts == {textHello, textEnglish}

MkLabel(code, script) == sLabelPrefix \o code \o sSepScript \o script

\* Labels of the loaded model; zxx is a code the ISO table does not hold
ModelLabels == {MkLabel(sEng, sLatn), MkLabel(sPol, sLatn), MkLabel(sZxx, sLatn)}

Confs == 0..MaxConf

\* What the model can say of one text: distinct labels, best first
Rankings ==
    {r \in UNION {[labels : [1..n -> ModelLabels], probs : [1..n -> Confs]]
                    : n \in 1..MaxRank} :
        /\ \A i, j \in DOMAIN r.labels : i # j => r.labels[i] # r.labels[j]
        /\ \A i, j \in DOMAIN r.probs : i < j => r.probs[i] >= r.probs[j]}

Certainties == {None} \cup {Some(c) : c \in Confs}

\* The table the detector's registry is loaded from: the header line and two languages
IsoRows ==
    << Row(<<"I","d">>, <<"R","e","f","_","N","a","m","e">>),
       Row(sEng, sEnglish), Row(sPol, sPolish) >>

IsoCodes == parse_rows(IsoRows, 1, <<>>).codes

NoCall == [op |-> "none"]

---------------------------------------------------------------------------
(* Spec: the detector after construction, one public call at a time *)

Init ==
    /\ model \in [Texts -> Rankings]
    /\ codes = IsoCodes
    /\ constructed = TRUE
    /\ remote = [kind |-> "ok", rows |-> IsoRows]
    /\ cacheFile = [exists |-> TRUE, rows |-> IsoRows]
    /\ pc = "idle"
    /\ call = NoCall

Finish(op, args, certainty, r) ==
    /\ call' = [op |-> op, args |-> args, certainty |-> certainty,
                outcome |-> r.outcome, value |-> r.value, oracle |-> r.oracle]
    /\ pc' = "done"
    /\ UNCHANGED <<model, codes, constructed, remote, cacheFile>>

\* The same for the two operations that log a warning when predict_language
\* raises ValueError: the texts warned about are part of what the call did
FinishWarned(op, args, certainty, r) ==
    /\ call' = [op |-> op, args |-> args, certainty |-> certainty,
                outcome |-> r.outcome, value |-> r.value, oracle |-> r.oracle,
                warned |-> r.warned]
    /\ pc' = "done"
    /\ UNCHANGED <<model, codes, constructed, remote, cacheFile>>

CallPredictLanguage ==
    /\ pc = "idle"
    /\ \E text \in Texts, certainty \in Certainties :
          Finish("predict_language", <<text>>, certainty,
                 predict_language(model, codes, text, certainty))

CallPredictLanguageCandidates ==
    /\ pc = "idle"
    /\ \E text \in Texts, k \in 1..MaxK :
          Finish("predict_language_candidates", <<text, k>>, None,
                 predict_language_candidates(model, codes, text, k))

CallPredictLanguageAndCertainty ==
    /\ pc = "idle"
    /\ \E text \in Texts :
          Finish("predict_language_and_certainty", <<text>>, None,
                 predict_language_and_certainty(model, codes, text))

\* A positional call is_language(a1, a2, certainty=c), as example.py makes it:
\* the first argument binds to language_name, the second to text
CallIsLanguage ==
    /\ pc = "idle"
    /\ \E a1 \in Texts, a2 \in Texts, certainty \in Certainties :
          FinishWarned("is_language", <<a1, a2>>, certainty,
                 is_language(model, codes, a1, a2, certainty))

CallIsSameLanguage ==
    /\ pc = "idle"
    /\ \E texts \in SeqsUpTo(Texts, MaxTexts), certainty \in Certainties :
          FinishWarned("is_same_language", texts, certainty,
                 is_same_language(model, codes, texts, certainty))

Return ==
    /\ pc = "done"
    /\ pc' = "idle"
    /\ call' = NoCall
    /\ UNCHANGED <<model, codes, constructed, remote, cacheFile>>

Next ==
    \/ CallPredictLanguage
    \/ CallPredictLanguageCandidates
    \/ CallPredictLanguageAndCertainty
    \/ CallIsLanguage
    \/ CallIsSameLanguage
    \/ Return

Spec == Init /\ [][Next]_vars

---------------------------------------------------------------------------
(* SpecRegistry: constructions of LanguageCodes and lookups in the last one *)

TableCodes == {sEng, sPol}
TableNames == {sEnglish, sPolish}

\* Tables the server may serve: names may repeat, and so may ids
Tables == SeqsUpTo({Row(c, n) : c \in TableCodes, n \in TableNames}, MaxRows)

\* Bodies of an HTTP error answer: nothing, or one line without tabs
ErrorBodies == { <<>>, << << <<"E","r","r","o","r">> >> >> }

Responses ==
    {[kind |-> "ok", rows |-> t] : t \in Tables}
      \cup {[kind |-> "http_error", rows |-> b] : b \in ErrorBodies}
      \cup {[kind |-> "unreachable", rows |-> <<>>]}

LookupCodes == TableCodes \cup {sZxx}
LookupNames == TableNames \cup {textEnglish}

FixedModel ==
    [t \in Texts |-> [labels |-> <<MkLabel(sEng, sLatn)>>, probs |-> <<MaxConf>>]]

InitRegistry ==
    /\ model = FixedModel
    /\ codes = <<>>
    /\ constructed = FALSE
    /\ remote \in Responses
    /\ cacheFile = [exists |-> FALSE, rows |-> <<>>]
    /\ pc = "idle"
    /\ call = NoCall

\* LanguageCodes(): a failed construction leaves the earlier object as it was
Construct ==
    /\ pc = "idle"
    /\ LET r == LanguageCodes_init(cacheFile, remote)
       IN /\ cacheFile' = r.file
          /\ codes' = IF r.outcome = "returned" THEN r.codes ELSE codes
          /\ constructed' = (constructed \/ r.outcome = "returned")
          /\ call' = [op |-> "LanguageCodes", hadCache |-> cacheFile.exists,
                      fileBefore |-> cacheFile, fetched |-> r.fetched,
                      response |-> remote.kind, outcome |-> r.outcome,
                      value |-> r.codes]
    /\ pc' = "done"
    /\ UNCHANGED <<model, remote>>

\* The server's answer changes between constructions
ServerChanges ==
    /\ pc = "idle"
    /\ remote' \in Responses
    /\ UNCHANGED <<model, codes, constructed, cacheFile, pc, call>>

Lookup(op, arg, value) ==
    /\ call' = [op |-> op, arg |-> arg, outcome |-> "returned", value |-> value]
    /\ pc' = "done"
    /\ UNCHANGED <<model, codes, constructed, remote, cacheFile>>

CallGetLanguageName ==
    /\ pc = "idle" /\ constructed
    /\ \E code \in LookupCodes :
          Lookup("get_language_name", code, get_language_name(codes, code))

CallGetLanguageCode ==
    /\ pc = "idle" /\ constructed
    /\ \E name \in LookupNames :
          Lookup("get_language_code", name, get_language_code(codes, name))

\* get_language_code(get_language_name(code))
CallRoundTrip ==
    /\ pc = "idle" /\ constructed
    /\ \E code \in LookupCodes :
          Lookup("round_trip", code,
                 get_language_code(codes, get_language_name(codes, code)))

NextRegistry ==
    \/ Construct
    \/ ServerChanges
    \/ CallGetLanguageName
    \/ CallGetLanguageCode
    \/ CallRoundTrip
    \/ Return

SpecRegistry == InitRegistry /\ [][NextRegistry]_vars

---------------------------------------------------------------------------
(* SpecLabel: the decode step applied to label strings *)

LabelChars == {"_", "a", "b"}
SegChars == {"_", "a"}

\* Any short string, and strings built as <prefix><code>_<script-tag>
LabelInputs ==
    {[label |-> l, shaped |-> FALSE, code |-> <<>>, script |-> <<>>]
        : l \in SeqsUpTo(LabelChars, MaxLabelLen)}
      \cup {[label |-> MkLabel(c, t), shaped |-> TRUE, code |-> c, script |-> t]
              : c \in SeqsUpTo(SegChars, MaxSegLen) \cup {sEng, sZxx},
                t \in SeqsUpTo(SegChars, MaxSegLen) \cup {sLatn}}

InitLabel ==
    /\ model = FixedModel
    /\ codes = IsoCodes
    /\ constructed = TRUE
    /\ remote = [kind |-> "ok", rows |-> IsoRows]
    /\ cacheFile = [exists |-> TRUE, rows |-> IsoRows]
    /\ pc = "idle"
    /\ call = NoCall

DecodeLabel ==
    /\ pc = "idle"
    /\ \E in \in LabelInputs :
          call' = [op |-> "decode", label |-> in.label, shaped |-> in.shaped,
                   code |-> in.code, script |-> in.script, outcome |-> "returned",
                   value |-> _language_code_from_label(in.label),
                   name |-> _language_name_from_label(codes, in.label)]
    /\ pc' = "done"
    /\ UNCHANGED <<model, codes, constructed, remote, cacheFile>>

NextLabel ==
    \/ DecodeLabel
    \/ Return

SpecLabel == InitLabel /\ [][NextLabel]_vars

---------------------------------------------------------------------------
(* What the claims speak of, read off the state *)

\* The model's best label and its confidence for a text
Top1Label(text) == model[text].labels[1]
Top1Conf(text) == model[text].probs[1]

\* The display name the registry holds for the code of the best label
Top1Name(text) ==
    LET code == _language_code_from_label(Top1Label(text))
    IN IF \E i \in DOMAIN codes : codes[i][1] = code
       THEN codes[CHOOSE i \in DOMAIN codes : codes[i][1] = code][2]
       ELSE sUnknown

\* Whether a text fails the threshold
Fails(text, certainty) == certainty # None /\ Top1Conf(text) <= certainty[1]

---------------------------------------------------------------------------
(* C1 *)

\* C1: with a certainty c supplied, predict_language raises the threshold error
\* (ValueError) exactly when the top-1 confidence is <= c, a confidence equal to
\* c included, and otherwise returns the name decoded from the top-1 label.
C1_ThresholdIff ==
    (call.op = "predict_language" /\ call.certainty # None) =>
        LET text == call.args[1]
            c == call.certainty[1]
        IN /\ ((call.outcome = "ValueError") <=> (Top1Conf(text) <= c))
           /\ ((Top1Conf(text) > c) =>
                 (call.outcome = "returned" /\ call.value = Top1Name(text)))

\* The boundary: a confidence equal to the threshold has raised
C1_Witness ==
    /\ call.op = "predict_language"
    /\ call.certainty # None
    /\ Top1Conf(call.args[1]) = call.certainty[1]
    /\ call.outcome = "ValueError"

---------------------------------------------------------------------------
(* C2 *)

\* C2: is_language(text, language_name, certainty), called with the text first
\* as example.py calls it, returns true if the name decoded from the top-1
\* prediction for the text equals language_name ignoring case, and false when
\* the text fails the certainty threshold.
C2_IsLanguageOfText ==
    call.op = "is_language" =>
        LET text == call.args[1]
            language_name == call.args[2]
        IN /\ call.outcome = "returned"
           /\ (Fails(text, call.certainty) => call.value = FALSE)
           /\ ((~Fails(text, call.certainty)
                  /\ lower(Top1Name(text)) = lower(language_name)) =>
                 call.value = TRUE)

---------------------------------------------------------------------------
(* C3 *)

FirstFailing(texts, certainty) ==
    CHOOSE i \in DOMAIN texts :
        /\ Fails(texts[i], certainty)
        /\ \A j \in 1..(i - 1) : ~Fails(texts[j], certainty)

\* C3: in is_same_language, once a text fails the threshold the call returns
\* false at once: the oracle has been asked about the texts up to and including
\* the first failing one and about no later text.
C3_ShortCircuit ==
    (call.op = "is_same_language"
       /\ \E i \in DOMAIN call.args : Fails(call.args[i], call.certainty)) =>
        LET f == FirstFailing(call.args, call.certainty)
        IN /\ call.outcome = "returned"
           /\ call.value = FALSE
           /\ Len(call.oracle) = f
           /\ \A j \in 1..f : call.oracle[j][1] = call.args[j]

\* The first of two texts failed, both texts of the same language
C3_Witness ==
    /\ call.op = "is_same_language"
    /\ Len(call.args) = 2
    /\ Fails(call.args[1], call.certainty)
    /\ Top1Name(call.args[1]) = Top1Name(call.args[2])
    /\ call.value = FALSE
    /\ Len(call.oracle) = 1

---------------------------------------------------------------------------
(* C4 *)

\* C4: when no text fails the threshold, is_same_language returns true exactly
\* when one distinct decoded name was seen over all the texts; for a single
\* text and no certainty it returns true.
C4_OneDistinctName ==
    (call.op = "is_same_language"
       /\ \A i \in DOMAIN call.args : ~Fails(call.args[i], call.certainty)) =>
        /\ call.outcome = "returned"
        /\ call.value =
             (Cardinality({Top1Name(call.args[i]) : i \in DOMAIN call.args}) = 1)
        /\ ((Len(call.args) = 1 /\ call.certainty = None) => call.value = TRUE)

\* Two different texts of one language, under a threshold both pass
C4_Witness ==
    /\ call.op = "is_same_language"
    /\ Len(call.args) = 2
    /\ call.args[1] # call.args[2]
    /\ call.certainty # None
    /\ \A i \in DOMAIN call.args : ~Fails(call.args[i], call.certainty)
    /\ call.value = TRUE

---------------------------------------------------------------------------
(* C5 *)

\* C5: predict_language_candidates(text, k) never fails and returns at most k
\* (name, confidence) entries in the oracle's order, confidences not
\* increasing, also when the oracle returns fewer than k candidates.
C5_CandidatesNeverFail ==
    call.op = "predict_language_candidates" =>
        LET text == call.args[1]
            k == call.args[2]
        IN /\ call.outcome = "returned"
           /\ Len(call.value) <= k
           /\ \A i \in DOMAIN call.value :
                 /\ i <= Len(model[text].labels)
                 /\ call.value[i][2] = model[text].probs[i]
           /\ \A i, j \in DOMAIN call.value :
                 (i < j => call.value[i][2] >= call.value[j][2])

---------------------------------------------------------------------------
(* C6 *)

\* C6: with no certainty, predict_language never raises and returns a
\* non-empty name: the registry's name for the decoded code, or "Unknown" when
\* the registry does not hold the code.
C6_UnsetNeverRaises ==
    (call.op = "predict_language" /\ call.certainty = None) =>
        /\ call.outcome = "returned"
        /\ call.value # <<>>
        /\ call.value = Top1Name(call.args[1])

\* A code the registry does not hold came back as "Unknown"
C6_Witness ==
    /\ call.op = "predict_language"
    /\ call.certainty = None
    /\ Top1Label(call.args[1]) = MkLabel(sZxx, sLatn)
    /\ call.value = sUnknown

---------------------------------------------------------------------------
(* C10 *)

DetectorOps ==
    {"predict_language", "predict_language_candidates",
     "predict_language_and_certainty", "is_language", "is_same_language"}

\* C10 as stated: every public call makes at most one oracle invocation, and
\* predict_language asks the oracle for k = 1.
C10_AtMostOneOracleCall ==
    call.op \in DetectorOps =>
        /\ Len(call.oracle) <= 1
        /\ (call.op = "predict_language" => call.oracle[1][2] = 1)

\* C10: predict_language, predict_language_and_certainty and is_language make
\* one oracle invocation with the default k = 3, predict_language_candidates
\* one with the caller's k, and is_same_language at most one per text, each
\* with k = 3 and in the order of the texts.
C10_OracleCalls ==
    /\ (call.op \in {"predict_language", "predict_language_and_certainty"} =>
          call.oracle = << <<call.args[1], DefaultK>> >>)
    /\ (call.op = "is_language" =>
          call.oracle = << <<call.args[2], DefaultK>> >>)
    /\ (call.op = "predict_language_candidates" =>
          call.oracle = << <<call.args[1], call.args[2]>> >>)
    /\ (call.op = "is_same_language" =>
          (/\ Len(call.oracle) <= Len(call.args)
           /\ \A i \in DOMAIN call.oracle :
                 call.oracle[i] = <<call.args[i], DefaultK>>))

\* is_same_language on two texts has asked the oracle twice
C10_Witness ==
    /\ call.op = "is_same_language"
    /\ Len(call.args) = 2
    /\ Len(call.oracle) = 2

---------------------------------------------------------------------------
(* C7 *)

NamesUnique(d) == \A i, j \in DOMAIN d : i # j => d[i][2] # d[j][2]

\* C7: for a code the loaded table holds, get_language_code(get_language_name(code))
\* is the code when the names of the table are unique; get_language_code returns
\* the code of the first entry, in the registry's order, whose name equals the
\* argument exactly, and "Unknown" when no entry does.
C7_RoundTrip ==
    /\ ((call.op = "round_trip"
           /\ (\E i \in DOMAIN codes : codes[i][1] = call.arg)
           /\ NamesUnique(codes)) =>
          call.value = call.arg)
    /\ (call.op = "get_language_code" =>
          (IF \E i \in DOMAIN codes : codes[i][2] = call.arg
           THEN \E i \in DOMAIN codes :
                  /\ codes[i] = <<call.value, call.arg>>
                  /\ \A j \in 1..(i - 1) : codes[j][2] # call.arg
           ELSE call.value = sUnknown))

\* Two codes share the name asked for, and the first one loaded came back
C7_Witness ==
    /\ call.op = "get_language_code"
    /\ Len(codes) = 2
    /\ codes[1][2] = call.arg
    /\ codes[2][2] = call.arg
    /\ call.value = codes[1][1]

---------------------------------------------------------------------------
(* C8 *)

\* C8: a construction fetches the remote table only when no cache file exists;
\* when that fetch fails, the construction fails and does not complete with a
\* mapping built from the failed fetch; once a cache file exists, constructions
\* reuse it without fetching.
C8_FailedFetchIsFatal ==
    call.op = "LanguageCodes" =>
        /\ (call.fetched <=> ~call.hadCache)
        /\ ((call.fetched /\ call.response # "ok") => call.outcome # "returned")
        /\ (call.hadCache => cacheFile = call.fileBefore)

---------------------------------------------------------------------------
(* C9 *)

Max(S) == CHOOSE x \in S : \A y \in S : y <= x

\* Every place where the marker "__" occurs in s
Occurrences(s) == {j \in 1..(Len(s) - 1) : s[j] = "_" /\ s[j + 1] = "_"}

\* The number of underscores that end right before place j
RunBefore(s, j) ==
    Max({n \in 0..(j - 1) : \A i \in (j - n)..(j - 1) : s[i] = "_"})

\* The occurrences a scan from the left takes when occurrences may not overlap:
\* in a run of underscores, the first, the third, the fifth, ...
ScanOccurrences(s) == {j \in Occurrences(s) : RunBefore(s, j) % 2 = 0}

After(s, occ) == IF occ = {} THEN s ELSE SubSeq(s, Max(occ) + 2, Len(s))

BeforeFirstUnderscore(t) ==
    LET us == {i \in DOMAIN t : t[i] = "_"}
    IN IF us = {} THEN t
       ELSE SubSeq(t, 1, (CHOOSE i \in us : \A u \in us : i <= u) - 1)

HasNoUnderscore(t) == \A i \in DOMAIN t : t[i] # "_"

\* C9 as stated: the decode step returns what follows the last occurrence of
\* the marker and precedes the first underscore of that remainder, and for
\* every label <prefix><code>_<script-tag> it returns <code>.
C9_AfterLastOccurrence ==
    call.op = "decode" =>
        /\ call.value = BeforeFirstUnderscore(After(call.label, Occurrences(call.label)))
        /\ (call.shaped => call.value = call.code)

\* C9: the decode step returns what follows the last marker "__" found by a
\* scan from the left in which occurrences do not overlap, up to the first
\* underscore of that remainder; for a label <prefix><code>_<script-tag> whose
\* code holds no underscore and whose script tag neither starts with an
\* underscore nor holds two in a row, it returns <code>.
C9_Decode ==
    call.op = "decode" =>
        /\ call.value =
             BeforeFirstUnderscore(After(call.label, ScanOccurrences(call.label)))
        /\ ((call.shaped
               /\ HasNoUnderscore(call.code)
               /\ Occurrences(call.script) = {}
               /\ (call.script = <<>> \/ call.script[1] # "_")) =>
              call.value = call.code)

\* __label__eng_Latn decoded to eng, which the registry names English
C9_Witness ==
    /\ call.op = "decode"
    /\ call.label = MkLabel(sEng, sLatn)
    /\ call.value = sEng
    /\ call.name = sEnglish

====
